---------------------------- MODULE Spec2Model ----------------------------
(***************************************************************************)
(* The RAG workflow of Langchain-lab-notebook.ipynb and the /query         *)
(* endpoint declared by the OpenAPI document.                              *)
(*                                                                         *)
(* Two pipelines share one resource, the named Elasticsearch index:        *)
(*   - the indexing cell (exists / delete / add_texts / count), checked    *)
(*     under SpecIndexing;                                                 *)
(*   - the query pipeline (embed the question, kNN search, "stuff" the     *)
(*     hits into one prompt, generate) behind POST /query, checked under   *)
(*     Spec, which starts from any index an indexing run can leave.        *)
(* Texts are sequences of tokens (strings); the three providers are        *)
(* deterministic functions that may also fail.                             *)
(***************************************************************************)
EXTENDS Integers, Sequences, FiniteSets, TLC

\* ------------------------------------------------------------ bounds
\* Passage ids of the modelled corpora are 0..MaxId.
MaxId == 4

\* The indexing cell is run at most MaxRuns times.
MaxRuns == 2

\* knowledge_base.as_retriever() keeps the retriever's default k.
K == 4

Ids == 0..MaxId
\* Two editions of psgs.tsv: the same ids with different passage bodies.
Versions == {1, 2}

VARIABLES
    documents,      \* the DataFrame read from psgs.tsv, a sequence of rows
    indexExists,    \* whether the index named indexName exists
    index,          \* the documents held by that index
    ipc,            \* position of the indexing cells
    embeddings,     \* vectors computed by add_texts for the rows
    nextRow,        \* next row the bulk request of add_texts sends
    doc_count,      \* the notebook's doc_count, -1 before it is read
    runs,           \* how many times the indexing cell was started
    priorIndex,     \* what the index held when the last run started
    failure,        \* the call at which the last run was aborted, or "none"
    sample,         \* the id the sample cell drew and whether it was found
    pc,             \* per request handler: its position
    request,        \* per request handler: the HTTP request being served
    qvec,           \* per request handler: the embedded question
    retrieved,      \* per request handler: the ranked hits
    prompt,         \* per request handler: the prompt sent to the model
    response,       \* per request handler: the HTTP response
    calls           \* per request handler: provider calls made so far

ivars == <<documents, indexExists, index, ipc, embeddings, nextRow, doc_count,
          runs, priorIndex, failure, sample>>
qvars == <<pc, request, qvec, retrieved, prompt, response, calls>>
vars == <<documents, indexExists, index, ipc, embeddings, nextRow, doc_count,
          runs, priorIndex, failure, sample,
          pc, request, qvec, retrieved, prompt, response, calls>>

\* ------------------------------------------------------------ texts
NL == "\n"

Title(i) == <<"title", ToString(i \div 2)>>

Body(i, v) == <<"text", ToString(i), "edition", ToString(v)>>

\* Mutant: the title is left out of the indexed text.
IndexTextWithoutTitle(title, text) == text

\* documents['indextext'] = documents['title'].astype(str) + "\n" + documents['text']
IndexText(title, text) == title \o <<NL>> \o text

\* One row of the DataFrame, with the indextext column added.
Row(i, v) ==
    [id |-> i, title |-> Title(i), text |-> Body(i, v),
     indextext |-> IndexText(Title(i), Body(i, v))]

RECURSIVE RowsOf(_, _)
\* The rows with ids S of edition v, in ascending id order.
RowsOf(S, v) ==
    IF S = {} THEN <<>>
    ELSE LET m == CHOOSE x \in S : \A y \in S : x <= y
         IN  <<Row(m, v)>> \o RowsOf(S \ {m}, v)

\* pd.read_csv of one edition of the file: any non-empty set of passages,
\* each id at most once ("unique for each doc").
Corpora == {RowsOf(S, v) : S \in (SUBSET Ids) \ {{}}, v \in Versions}

\* ------------------------------------------------------------ embedding provider
TokenWeight(tok) ==
    CASE tok = "0" -> 0 [] tok = "1" -> 1 [] tok = "2" -> 2 [] tok = "3" -> 3
      [] tok = "4" -> 4 [] tok = "5" -> 5 [] tok = "6" -> 6
      [] tok = "title" -> 1 [] tok = "text" -> 2 [] tok = "edition" -> 4
      [] tok = "capital" -> 3 [] tok = "france" -> 5 [] tok = "super" -> 7
      [] tok = "bowl" -> 8
      [] OTHER -> 0

RECURSIVE TextWeight(_)
TextWeight(text) ==
    IF text = <<>> THEN 0 ELSE TokenWeight(Head(text)) + TextWeight(Tail(text))

\* SentenceTransformerEmbeddings: text -> dense vector, the same function for
\* passages and questions.  Components are in -1..1.
EmbFunc(text) ==
    LET w == TextWeight(text)
    IN  <<(w % 3) - 1, ((w \div 3) % 3) - 1>>

\* distance_strategy="DOT_PRODUCT"
DotProduct(a, b) == a[1] * b[1] + a[2] * b[2]

\* ------------------------------------------------------------ vector store
\* What the store holds for one bulk item: _id, the text, its vector and the
\* metadata.
IndexedDocument(id, text, vector, metadata) ==
    [id |-> id, text |-> text, vector |-> vector, metadata |-> metadata]

\* A bulk "index" operation: the document replaces any document of the same _id.
Upsert(docs, doc) == {d \in docs : d.id # doc.id} \cup {doc}

\* ------------------------------------------------------------ indexing cells
\* texts=documents.indextext.tolist()
Texts(rows) == [i \in 1..Len(rows) |-> rows[i].indextext]

\* metadatas=[{'title': title, 'id': doc_id} for (title, doc_id) in zip(documents.title, documents.id)]
Metadatas(rows) == [i \in 1..Len(rows) |-> [title |-> rows[i].title, id |-> rows[i].id]]

\* Mutant: the ids are taken from the title column.
DocIdsByTitle(rows) == [i \in 1..Len(rows) |-> rows[i].title[2]]

\* ids=[str(i) for i in documents.id]
DocIds(rows) == [i \in 1..Len(rows) |-> ToString(rows[i].id)]

\* The i-th item of the bulk request add_texts builds.
BulkItem(rows, vectors, i) ==
    IndexedDocument(DocIds(rows)[i], Texts(rows)[i], vectors[i], Metadatas(rows)[i])

\* The index a complete add_texts of these rows builds from nothing.
IndexOf(rows) ==
    {BulkItem(rows, [i \in 1..Len(rows) |-> EmbFunc(rows[i].indextext)], j) :
        j \in 1..Len(rows)}

IdlePositions == {"ready", "indexed", "counted", "failed"}

\* if es_connection.indices.exists(index=indexName):
ShouldDelete(exists) == exists

IndicesExists ==
    /\ ipc \in IdlePositions
    /\ runs < MaxRuns
    /\ runs' = runs + 1
    /\ priorIndex' = index
    /\ ipc' = IF ShouldDelete(indexExists) THEN "delete" ELSE "embed"
    /\ embeddings' = <<>>
    /\ failure' = "none"
    /\ UNCHANGED <<documents, indexExists, index, nextRow, doc_count, sample>>
    /\ UNCHANGED qvars

\* Mutant: the delete names another index and leaves this one as it was.
IndicesDeleteOtherIndex ==
    /\ ipc = "delete"
    /\ ipc' = "embed"
    /\ UNCHANGED <<documents, indexExists, index, embeddings, nextRow, doc_count,
                   runs, priorIndex>>
    /\ UNCHANGED <<failure, sample>>
    /\ UNCHANGED qvars

\*     es_connection.indices.delete(index=indexName)
IndicesDelete ==
    /\ ipc = "delete"
    /\ indexExists' = FALSE
    /\ index' = {}
    /\ ipc' = "embed"
    /\ UNCHANGED <<documents, embeddings, nextRow, doc_count, runs, priorIndex>>
    /\ UNCHANGED <<failure, sample>>
    /\ UNCHANGED qvars

\* add_texts, first part: the embedding function is applied to all the texts.
EmbedDocuments ==
    /\ ipc = "embed"
    /\ embeddings' = [i \in 1..Len(documents) |-> EmbFunc(Texts(documents)[i])]
    /\ ipc' = "create"
    /\ UNCHANGED <<documents, indexExists, index, nextRow, doc_count, runs, priorIndex>>
    /\ UNCHANGED <<failure, sample>>
    /\ UNCHANGED qvars

\* add_texts, second part: the index is created when it does not exist.
CreateIndexIfNotExists ==
    /\ ipc = "create"
    /\ indexExists' = TRUE
    /\ index' = IF indexExists THEN index ELSE {}
    /\ nextRow' = 1
    /\ ipc' = "bulk"
    /\ UNCHANGED <<documents, embeddings, doc_count, runs, priorIndex>>
    /\ UNCHANGED <<failure, sample>>
    /\ UNCHANGED qvars

\* add_texts, third part: the bulk request indexes the items in row order.
BulkIndex ==
    /\ ipc = "bulk"
    /\ nextRow <= Len(documents)
    /\ index' = Upsert(index, BulkItem(documents, embeddings, nextRow))
    /\ nextRow' = nextRow + 1
    /\ ipc' = IF nextRow = Len(documents) THEN "indexed" ELSE "bulk"
    /\ UNCHANGED <<documents, indexExists, embeddings, doc_count, runs, priorIndex>>
    /\ UNCHANGED <<failure, sample>>
    /\ UNCHANGED qvars

\* Mutant: a failed run removes what it had written.
IndexingFailsRollsBack ==
    /\ ipc \in {"delete", "embed", "create", "bulk"}
    /\ ipc' = "failed"
    /\ failure' = ipc
    /\ index' = IF ipc = "bulk" THEN {} ELSE index
    /\ UNCHANGED <<documents, indexExists, embeddings, nextRow, doc_count,
                   runs, priorIndex, sample>>
    /\ UNCHANGED qvars

\* Any call of the cell may raise (the cell has no try/except): the run stops
\* where it is and what was written stays.
IndexingFails ==
    /\ ipc \in {"delete", "embed", "create", "bulk"}
    /\ ipc' = "failed"
    /\ failure' = ipc
    /\ UNCHANGED <<documents, indexExists, index, embeddings, nextRow, doc_count,
                   runs, priorIndex, sample>>
    /\ UNCHANGED qvars

\* doc_count = es_connection.count(index=indexName)["count"]
CountDocs ==
    /\ ipc = "indexed"
    /\ doc_count' = Cardinality(index)
    /\ ipc' = "counted"
    /\ UNCHANGED <<documents, indexExists, index, embeddings, nextRow, runs, priorIndex>>
    /\ UNCHANGED <<failure, sample>>
    /\ UNCHANGED qvars

NoSample == [drawn |-> -1, found |-> FALSE]

\* dict(es_connection.get(index=indexName, id=random.randint(0, len(documents)-1)))
GetSample ==
    /\ ipc \in {"indexed", "counted"}
    /\ \E n \in 0..(Len(documents) - 1) :
           sample' = [drawn |-> n,
                      found |-> \E d \in index : d.id = ToString(n)]
    /\ UNCHANGED <<documents, indexExists, index, ipc, embeddings, nextRow,
                   doc_count, runs, priorIndex, failure>>
    /\ UNCHANGED qvars

NextIndexing ==
    \/ IndicesExists
    \/ IndicesDelete
    \/ EmbedDocuments
    \/ CreateIndexIfNotExists
    \/ BulkIndex
    \/ IndexingFails
    \/ CountDocs
    \/ GetSample

\* ------------------------------------------------------------ retrieval
\* Similarity of a stored document to the embedded question.
Score(doc, qv) == DotProduct(doc.vector, qv)

\* Mutant: the least similar documents come first.
Worst(docs, qv) == {d \in docs : \A e \in docs : Score(d, qv) <= Score(e, qv)}

\* The documents no other document of the set outranks.
Best(docs, qv) == {d \in docs : \A e \in docs : Score(d, qv) >= Score(e, qv)}

\* Mutant: the search ignores k.
HitCountUnlimited(docs, k) == Cardinality(docs)

\* How many hits a search for k neighbours returns.
HitCount(docs, k) == IF Cardinality(docs) < k THEN Cardinality(docs) ELSE k

RECURSIVE Ranked(_, _, _)
\* The hit lists of n hits the store may return: best first, ties in any order.
Ranked(docs, qv, n) ==
    IF n = 0 \/ docs = {} THEN {<<>>}
    ELSE UNION {{<<d>> \o s : s \in Ranked(docs \ {d}, qv, n - 1)} : d \in Best(docs, qv)}

\* knowledge_base.as_retriever(): similarity search for the k nearest documents.
SimilaritySearch(docs, qv, k) == Ranked(docs, qv, HitCount(docs, k))

\* A hit as the chain hands it on: a LangChain Document.
Document(hit) ==
    [page_content |-> hit.text, metadata |-> hit.metadata, type |-> "Document"]

AsDocuments(hits) == [i \in 1..Len(hits) |-> Document(hits[i])]

\* ------------------------------------------------------------ "stuff" chain
Instruction == "Use the following pieces of context to answer the question at the end."
Separator == "\n\n"
QuestionLabel == "\n\nQuestion: "
AnswerLabel == "\nHelpful Answer:"
TemplateTokens == {Instruction, Separator, QuestionLabel, AnswerLabel}

RECURSIVE JoinContents(_)
\* The page contents joined by the document separator.
JoinContents(docs) ==
    IF docs = <<>> THEN <<>>
    ELSE IF Len(docs) = 1 THEN docs[1].page_content
    ELSE docs[1].page_content \o <<Separator>> \o JoinContents(Tail(docs))

\* Mutant: only the best hit is put into the prompt.
StuffPromptFirstOnly(docs, question) ==
    <<Instruction>> \o (IF docs = <<>> THEN <<>> ELSE docs[1].page_content)
        \o <<QuestionLabel>> \o question \o <<AnswerLabel>>

\* chain_type="stuff": every document's content goes into one prompt, then the
\* question.
StuffPrompt(docs, question) ==
    <<Instruction>> \o JoinContents(docs) \o <<QuestionLabel>> \o question
        \o <<AnswerLabel>>

\* watsonx_granite with greedy decoding: the generated text is a function of the
\* prompt.
WatsonxGranite(text) == <<"generated from">> \o text

\* Mutant: the chain stops when nothing was retrieved.
AfterRetrievalSkipsEmpty(docs) == IF docs = <<>> THEN "done" ELSE "generate"

\* What follows retrieval in the chain: the combine step runs whatever was found.
AfterRetrieval(docs) == "generate"

\* Mutant: the result carries the question as it was formatted for the prompt.
QAResultRewritten(question, answer, docs) ==
    [query |-> <<QuestionLabel>> \o question, result |-> answer,
     source_documents |-> docs]

\* result = qa({"query": question}) with return_source_documents=True: the
\* inputs, the answer and the documents used.
QAResult(question, answer, docs) ==
    [query |-> question, result |-> answer, source_documents |-> docs]

\* ------------------------------------------------------------ /query endpoint
Handlers == {"h1", "h2"}

ValidKey == "valid-key"
Headers == {{}, {<<"apikey", ValidKey>>}, {<<"apikey", "wrong-key">>}}

Questions == {<<>>, <<"capital", "france">>, <<"super", "bowl">>}
Bodies == {{}} \cup {{<<"query", q>>} : q \in Questions}

\* Mutant: any apikey header passes.
AuthorizedByPresence(headers) == \E h \in headers : h[1] = "apikey"

\* securitySchemes.ApiKeyAuth: an API key in the header named apikey.
Authorized(headers) == \E h \in headers : h[1] = "apikey" /\ h[2] = ValidKey

\* Mutant: the required property is not checked.
ValidRequestUnchecked(body) == TRUE

\* schemas.QueryRequest: an object whose required property query is a string.
ValidRequest(body) == \E f \in body : f[1] = "query"

\* The query string of a body; the empty string when the body has none.
QueryOf(body) ==
    IF \E f \in body : f[1] = "query"
    THEN (CHOOSE f \in body : f[1] = "query")[2]
    ELSE <<>>

\* One provider call of a handler and whether it returned.
Call(provider, ok) == [provider |-> provider, ok |-> ok]

NoResponse ==
    [status |-> 0, kind |-> "none", query |-> <<>>, result |-> <<>>,
     source_documents |-> <<>>, detail |-> ""]

\* responses.401: no content.
Unauthorized == [NoResponse EXCEPT !.status = 401]

\* A request body that does not match the schema.
BadRequest == [NoResponse EXCEPT !.status = 400]

\* Mutant: the error text is returned as the answer of a successful response.
ServerErrorAsAnswer(detail) ==
    [NoResponse EXCEPT !.status = 200, !.kind = "QueryResponse",
                       !.result = <<detail>>]

\* responses.500 with schemas.ErrorResponse.
ServerError(detail) ==
    [NoResponse EXCEPT !.status = 500, !.kind = "ErrorResponse",
                       !.detail = detail]

\* responses.200 with schemas.QueryResponse.
Success(result) ==
    [NoResponse EXCEPT !.status = 200, !.kind = "QueryResponse",
                       !.query = result.query, !.result = result.result,
                       !.source_documents = result.source_documents]

NoRequest == [headers |-> {}, body |-> {}]

Receive(r) ==
    /\ pc[r] = "idle"
    /\ \E h \in Headers, b \in Bodies :
           request' = [request EXCEPT ![r] = [headers |-> h, body |-> b]]
    /\ pc' = [pc EXCEPT ![r] = "auth"]
    /\ UNCHANGED <<qvec, retrieved, prompt, response, calls>>
    /\ UNCHANGED ivars

Authenticate(r) ==
    /\ pc[r] = "auth"
    /\ IF Authorized(request[r].headers)
       THEN /\ pc' = [pc EXCEPT ![r] = "validate"]
            /\ UNCHANGED response
       ELSE /\ pc' = [pc EXCEPT ![r] = "done"]
            /\ response' = [response EXCEPT ![r] = Unauthorized]
    /\ UNCHANGED <<request, qvec, retrieved, prompt, calls>>
    /\ UNCHANGED ivars

Validate(r) ==
    /\ pc[r] = "validate"
    /\ IF ValidRequest(request[r].body)
       THEN /\ pc' = [pc EXCEPT ![r] = "embed"]
            /\ UNCHANGED response
       ELSE /\ pc' = [pc EXCEPT ![r] = "done"]
            /\ response' = [response EXCEPT ![r] = BadRequest]
    /\ UNCHANGED <<request, qvec, retrieved, prompt, calls>>
    /\ UNCHANGED ivars

\* Mutant: the embedded question is kept in one place shared by all handlers.
EmbedQueryShared(r) ==
    /\ pc[r] = "embed"
    /\ calls' = [calls EXCEPT ![r] = Append(@, Call("embed", TRUE))]
    /\ qvec' = [h \in Handlers |-> EmbFunc(QueryOf(request[r].body))]
    /\ pc' = [pc EXCEPT ![r] = "retrieve"]
    /\ UNCHANGED <<request, retrieved, prompt, response>>
    /\ UNCHANGED ivars

\* Step 1 of the chain: the question is embedded.
EmbedQuery(r) ==
    /\ pc[r] = "embed"
    /\ calls' = [calls EXCEPT ![r] = Append(@, Call("embed", TRUE))]
    /\ qvec' = [qvec EXCEPT ![r] = EmbFunc(QueryOf(request[r].body))]
    /\ pc' = [pc EXCEPT ![r] = "retrieve"]
    /\ UNCHANGED <<request, retrieved, prompt, response>>
    /\ UNCHANGED ivars

\* Step 2: the k nearest documents of the index; a missing index is an error
\* of the store.
Retrieve(r) ==
    /\ pc[r] = "retrieve"
    /\ calls' = [calls EXCEPT ![r] = Append(@, Call("search", indexExists))]
    /\ IF indexExists
       THEN \E hits \in SimilaritySearch(index, qvec[r], K) :
               /\ retrieved' = [retrieved EXCEPT ![r] = hits]
               /\ pc' = [pc EXCEPT ![r] = AfterRetrieval(hits)]
               /\ UNCHANGED response
       ELSE /\ pc' = [pc EXCEPT ![r] = "done"]
            /\ response' = [response EXCEPT ![r] = ServerError("search")]
            /\ UNCHANGED retrieved
    /\ UNCHANGED <<request, qvec, prompt>>
    /\ UNCHANGED ivars

\* Steps 3 to 5: the prompt is built, the model generates, the result is
\* returned.
Generate(r) ==
    /\ pc[r] = "generate"
    /\ calls' = [calls EXCEPT ![r] = Append(@, Call("generate", TRUE))]
    /\ LET q == QueryOf(request[r].body)
           docs == AsDocuments(retrieved[r])
           p == StuffPrompt(docs, q)
       IN  /\ prompt' = [prompt EXCEPT ![r] = p]
           /\ response' = [response EXCEPT ![r] =
                              Success(QAResult(q, WatsonxGranite(p), docs))]
    /\ pc' = [pc EXCEPT ![r] = "done"]
    /\ UNCHANGED <<request, qvec, retrieved>>
    /\ UNCHANGED ivars

\* The provider a handler calls at each position.
ProviderAt(position) ==
    CASE position = "embed" -> "embed"
      [] position = "retrieve" -> "search"
      [] OTHER -> "generate"

\* The provider call the handler is about to make raises instead.
ProviderFails(r) ==
    /\ pc[r] \in {"embed", "retrieve", "generate"}
    /\ calls' = [calls EXCEPT ![r] = Append(@, Call(ProviderAt(pc[r]), FALSE))]
    /\ response' = [response EXCEPT ![r] = ServerError(ProviderAt(pc[r]))]
    /\ prompt' = [prompt EXCEPT ![r] =
                     IF pc[r] = "generate"
                     THEN StuffPrompt(AsDocuments(retrieved[r]),
                                      QueryOf(request[r].body))
                     ELSE @]
    /\ pc' = [pc EXCEPT ![r] = "done"]
    /\ UNCHANGED <<request, qvec, retrieved>>
    /\ UNCHANGED ivars

\* The response is sent and the handler is free for the next request.
Finish(r) ==
    /\ pc[r] = "done"
    /\ pc' = [pc EXCEPT ![r] = "idle"]
    /\ request' = [request EXCEPT ![r] = NoRequest]
    /\ qvec' = [qvec EXCEPT ![r] = <<0, 0>>]
    /\ retrieved' = [retrieved EXCEPT ![r] = <<>>]
    /\ prompt' = [prompt EXCEPT ![r] = <<>>]
    /\ response' = [response EXCEPT ![r] = NoResponse]
    /\ calls' = [calls EXCEPT ![r] = <<>>]
    /\ UNCHANGED ivars

Query(r) ==
    \/ Receive(r)
    \/ Authenticate(r)
    \/ Validate(r)
    \/ EmbedQuery(r)
    \/ Retrieve(r)
    \/ Generate(r)
    \/ ProviderFails(r)
    \/ Finish(r)

\* ------------------------------------------------------------ specifications
InitHandlers ==
    /\ pc = [r \in Handlers |-> "idle"]
    /\ request = [r \in Handlers |-> NoRequest]
    /\ qvec = [r \in Handlers |-> <<0, 0>>]
    /\ retrieved = [r \in Handlers |-> <<>>]
    /\ prompt = [r \in Handlers |-> <<>>]
    /\ response = [r \in Handlers |-> NoResponse]
    /\ calls = [r \in Handlers |-> <<>>]

\* The notebook before the indexing cell runs: the corpus is loaded
\* (pd.read_csv and the indextext column), and the index named indexName is
\* absent, empty, or holds what an earlier session left under that name.
InitIndexing ==
    /\ documents \in Corpora
    /\ \/ /\ indexExists = FALSE
          /\ index = {}
       \/ /\ indexExists = TRUE
          /\ index \in {{}} \cup {IndexOf(c) : c \in Corpora}
    /\ ipc = "ready"
    /\ embeddings = <<>>
    /\ nextRow = 1
    /\ doc_count = -1
    /\ runs = 0
    /\ priorIndex = {}
    /\ failure = "none"
    /\ sample = NoSample
    /\ InitHandlers

SpecIndexing == InitIndexing /\ [][NextIndexing]_vars

\* The endpoint in service: an indexing run has ended, with the corpus indexed
\* or, having failed early, with an empty or no index.
Init ==
    /\ documents \in Corpora
    /\ \/ /\ ipc = "indexed"
          /\ indexExists = TRUE
          /\ index = IndexOf(documents)
          /\ nextRow = Len(documents) + 1
       \/ /\ ipc = "failed"
          /\ indexExists \in BOOLEAN
          /\ index = {}
          /\ nextRow = 1
    /\ embeddings = [i \in 1..Len(documents) |-> EmbFunc(Texts(documents)[i])]
    /\ doc_count = -1
    /\ runs = 1
    /\ priorIndex = {}
    /\ failure = IF ipc # "failed" THEN "none"
                 ELSE IF indexExists THEN "bulk" ELSE "create"
    /\ sample = NoSample
    /\ InitHandlers

Next == \E r \in Handlers : Query(r)

Spec == Init /\ [][Next]_vars

\* ------------------------------------------------------------ properties
Done(r) == pc[r] = "done"

\* Read off the request itself.
HasValidKey(r) == <<"apikey", ValidKey>> \in request[r].headers
HasQueryField(r) == \E q \in Questions : <<"query", q>> \in request[r].body
AskedQuery(r) == CHOOSE q \in Questions : <<"query", q>> \in request[r].body

Called(r, provider) ==
    \E i \in 1..Len(calls[r]) : calls[r][i].provider = provider
CalledOk(r, provider) ==
    \E i \in 1..Len(calls[r]) : calls[r][i].provider = provider /\ calls[r][i].ok
FailedCall(r) == \E i \in 1..Len(calls[r]) : ~calls[r][i].ok

NotTemplate(tok) == tok \notin TemplateTokens

RECURSIVE Contents(_)
\* The page contents of a list of documents, one after the other.
Contents(docs) ==
    IF docs = <<>> THEN <<>> ELSE Head(docs).page_content \o Contents(Tail(docs))

\* The vector the index holds for a returned document.
StoredVector(doc) ==
    (CHOOSE d \in index : d.text = doc.page_content /\ d.metadata = doc.metadata).vector

\* C1: an authenticated request with a non-empty query that ends with 200
\* carries a QueryResponse whose query field is the request's query string.
C1_QueryEchoed ==
    \A r \in Handlers :
        (/\ Done(r) /\ HasValidKey(r) /\ HasQueryField(r)
         /\ AskedQuery(r) # <<>>
         /\ response[r].status = 200)
        => /\ response[r].kind = "QueryResponse"
           /\ response[r].query = AskedQuery(r)

C1_Witness ==
    \E r \in Handlers :
        /\ Done(r) /\ response[r].status = 200
        /\ <<"query", <<"capital", "france">>>> \in request[r].body
        /\ Len(response[r].source_documents) > 0

\* C2: a request without the apikey header, or with a key that is not the
\* valid one, ends with 401 and no body, whatever its body is.
C2_Unauthorized ==
    \A r \in Handlers :
        (Done(r) /\ ~HasValidKey(r))
        => /\ response[r].status = 401
           /\ response[r].kind = "none"
           /\ response[r].source_documents = <<>>
           /\ response[r].result = <<>>

C2_Witness ==
    \E r \in Handlers :
        /\ Done(r)
        /\ request[r].headers = {<<"apikey", "wrong-key">>}
        /\ HasQueryField(r) /\ AskedQuery(r) # <<>>
        /\ response[r].status = 401

C4_ProviderFailure ==
    \A r \in Handlers :
        FailedCall(r)
        => /\ Done(r)
           /\ response[r].status = 500
           /\ response[r].kind = "ErrorResponse"
           /\ response[r].detail # ""
           /\ response[r].result = <<>>
           /\ response[r].source_documents = <<>>

C4_Witness ==
    \E r \in Handlers :
        /\ Done(r)
        /\ Len(calls[r]) = 3
        /\ calls[r][1].ok /\ calls[r][2].ok /\ ~calls[r][3].ok
        /\ response[r].status = 500

\* C5: a request whose search returned no document still makes the generation
\* call, with a prompt holding no context, and unless a provider call failed it
\* ends with 200 and an empty source_documents.
C5_EmptyRetrieval ==
    \A r \in Handlers :
        (Done(r) /\ CalledOk(r, "search") /\ retrieved[r] = <<>>)
        => /\ Called(r, "generate")
           /\ prompt[r] = <<Instruction, QuestionLabel>> \o AskedQuery(r)
                              \o <<AnswerLabel>>
           /\ ~FailedCall(r)
              => /\ response[r].status = 200
                 /\ response[r].kind = "QueryResponse"
                 /\ response[r].source_documents = <<>>
                 /\ response[r].result = WatsonxGranite(prompt[r])

C5_Witness ==
    \E r \in Handlers :
        /\ Done(r) /\ indexExists /\ index = {}
        /\ CalledOk(r, "generate")
        /\ AskedQuery(r) # <<>>
        /\ response[r].status = 200
        /\ response[r].source_documents = <<>>

\* C6: the source_documents of a QueryResponse are in non-increasing order of
\* the dot product of their stored vector with the embedded query.
C6_RankedBySimilarity ==
    \A r \in Handlers :
        response[r].kind = "QueryResponse"
        => LET sd == response[r].source_documents
           IN  \A i, j \in 1..Len(sd) :
                   i < j => DotProduct(StoredVector(sd[i]), qvec[r])
                              >= DotProduct(StoredVector(sd[j]), qvec[r])

C6_Witness ==
    \E r \in Handlers :
        /\ response[r].kind = "QueryResponse"
        /\ LET sd == response[r].source_documents
           IN  /\ Len(sd) >= 3
               /\ DotProduct(StoredVector(sd[1]), qvec[r])
                    > DotProduct(StoredVector(sd[2]), qvec[r])
               /\ DotProduct(StoredVector(sd[2]), qvec[r])
                    > DotProduct(StoredVector(sd[Len(sd)]), qvec[r])

\* C7: the source_documents of a QueryResponse are at most k documents, each
\* with the text and metadata of a document of the index, none listed twice.
C7_SubsetOfIndex ==
    \A r \in Handlers :
        response[r].kind = "QueryResponse"
        => LET sd == response[r].source_documents
           IN  /\ Len(sd) <= K
               /\ \A i \in 1..Len(sd) :
                      \E d \in index : /\ d.text = sd[i].page_content
                                       /\ d.metadata = sd[i].metadata
               /\ \A i, j \in 1..Len(sd) :
                      i # j => sd[i].metadata.id # sd[j].metadata.id

C7_Witness ==
    \E r \in Handlers :
        /\ response[r].kind = "QueryResponse"
        /\ Len(response[r].source_documents) = K
        /\ Cardinality(index) > K

\* C8: with passage ids unique in the corpus, after every completed run of
\* the indexing cell, first or repeated, whatever the index held before, the
\* index holds as many documents as the corpus has passages, and that is the
\* count the notebook reads.
C8_CountEqualsCorpus ==
    /\ ipc \in {"indexed", "counted"} => Cardinality(index) = Len(documents)
    /\ ipc = "counted" => doc_count = Len(documents)

C8_Witness ==
    /\ ipc = "counted"
    /\ runs = 2
    /\ Len(documents) >= 2
    /\ doc_count = Len(documents)

\* A document built from a row of the loaded corpus.
FromCorpus(d) ==
    \E i \in 1..Len(documents) :
        /\ d.id = ToString(documents[i].id)
        /\ d.text = documents[i].indextext
        /\ d.metadata.id = documents[i].id
        /\ d.metadata.title = documents[i].title

\* C9: when add_texts starts the index does not exist any more, while the
\* bulk request runs the index holds only rows already sent, and after a
\* completed run it holds only documents of the corpus just indexed.
C9_FullRebuild ==
    /\ ipc \in {"embed", "create"} => (~indexExists /\ index = {})
    /\ ipc = "bulk" =>
          \A d \in index :
              \E i \in 1..(nextRow - 1) : d.id = ToString(documents[i].id)
    /\ ipc \in {"bulk", "indexed", "counted"} => \A d \in index : FromCorpus(d)

C9_Witness ==
    /\ ipc = "indexed"
    /\ \E d \in priorIndex : ~FromCorpus(d)
    /\ \E d \in priorIndex :
           \A i \in 1..Len(documents) : d.id # ToString(documents[i].id)
    /\ index # {}

\* C10: the prompt of every generation call is, template text aside, the
\* contents of the retrieved documents in ranked order followed by the query,
\* and in a QueryResponse those documents are its source_documents.
C10_PromptIsStuffed ==
    \A r \in Handlers :
        /\ Called(r, "generate")
           => SelectSeq(prompt[r], NotTemplate)
                = Contents(AsDocuments(retrieved[r])) \o AskedQuery(r)
        /\ response[r].kind = "QueryResponse"
           => /\ SelectSeq(prompt[r], NotTemplate)
                   = Contents(response[r].source_documents) \o AskedQuery(r)
              /\ Head(prompt[r]) = Instruction
              /\ prompt[r][Len(prompt[r])] = AnswerLabel

C10_Witness ==
    \E r \in Handlers :
        /\ response[r].kind = "QueryResponse"
        /\ Len(response[r].source_documents) >= 3
        /\ AskedQuery(r) # <<>>
        /\ Len(prompt[r]) > Len(Contents(response[r].source_documents))

\* C11: with passage ids unique in the corpus, after a completed run the index
\* holds one document per passage and no other, no two documents share an id,
\* and the document stored under a passage's id has the text
\* title + "\n" + text and the metadata {title, id} of that passage.
C11_OneDocumentPerPassage ==
    /\ \A d, e \in index : d.id = e.id => d = e
    /\ ipc \in {"indexed", "counted"} =>
          /\ \A i \in 1..Len(documents) :
                 LET stored == {d \in index : d.id = ToString(documents[i].id)}
                 IN  /\ Cardinality(stored) = 1
                     /\ \A d \in stored :
                            /\ d.text = documents[i].title \o <<"\n">>
                                            \o documents[i].text
                            /\ d.metadata = [title |-> documents[i].title,
                                             id |-> documents[i].id]
          /\ \A d \in index :
                 \E i \in 1..Len(documents) : d.id = ToString(documents[i].id)

C11_Witness ==
    /\ ipc = "indexed"
    /\ Len(documents) >= 3
    /\ Cardinality(index) = Len(documents)
    /\ \E d \in priorIndex, e \in index : d.id = e.id /\ d.text # e.text

\* Row i of the corpus has a document in the index.
Upserted(i) == \E d \in index : d.id = ToString(documents[i].id)

C14_SampleFound == sample.drawn # -1 => sample.found

\* The provider whose call failed for handler r, or "none".
FailedProvider(r) ==
    IF FailedCall(r)
    THEN calls[r][CHOOSE i \in 1..Len(calls[r]) : ~calls[r][i].ok].provider
    ELSE "none"

\* The responses a request can end with when it is the only one served, over
\* the index as it is, when the call to provider f fails (f = "none": no call
\* fails).
Alone(req, f) ==
    IF <<"apikey", ValidKey>> \notin req.headers THEN {Unauthorized}
    ELSE IF ~\E q \in Questions : <<"query", q>> \in req.body THEN {BadRequest}
    ELSE IF f # "none" THEN {ServerError(f)}
    ELSE LET q == CHOOSE x \in Questions : <<"query", x>> \in req.body
         IN  {Success(QAResult(q,
                               WatsonxGranite(StuffPrompt(AsDocuments(hits), q)),
                               AsDocuments(hits))) :
                 hits \in SimilaritySearch(index, EmbFunc(q), K)}

\* C13: while the index does not change, whatever the interleaving of the
\* handlers' steps, the response of every finished request is one the same
\* request gets when served alone with the same provider outcome.
C13_NoInterference ==
    \A r \in Handlers :
        Done(r) => response[r] \in Alone(request[r], FailedProvider(r))

C13_Witness ==
    /\ Done("h1") /\ response["h1"].status = 200
    /\ pc["h2"] = "generate"
    /\ Len(calls["h1"]) = 3 /\ Len(calls["h2"]) = 2
    /\ QueryOf(request["h1"].body) # QueryOf(request["h2"].body)
    /\ retrieved["h1"] # retrieved["h2"]
    /\ Len(retrieved["h2"]) >= 2

=============================================================================
